---- MODULE Spec2Model ----
(***************************************************************************)
(* A model of the streaming CBOR decoder of src/src/de.rs.                 *)
(*                                                                         *)
(* The decoder is a recursive-descent parser that calls back into serde    *)
(* visitors.  The call stack is explicit here: `stack` holds one frame per *)
(* active from_reader call, chunk-assembly loop (parse_byte_buf /          *)
(* parse_string, indefinite branch) and CompositeVisitor.  `pc` says who   *)
(* runs next: a pending Deserialize::deserialize(de) call ("call"), a      *)
(* result on its way to the frame on top ("ret"), or a visitor holding the *)
(* CompositeVisitor on top ("visitor").                                    *)
(*                                                                         *)
(* Bytes are 0..255.  Arguments and integers are big-endian byte sequences *)
(* of their Rust width, so that 64-bit arithmetic keeps its width.         *)
(* Option<T> is a sequence of length 0 (None) or 1 (Some).                 *)
(*                                                                         *)
(* serde's visitors are not part of this repository.  The visitor of a     *)
(* composite is the environment: it may pull, pull a map value, or finish  *)
(* at any time; it propagates an error of a pull (try!) and returns what   *)
(* end() returns.  The visitors of ByteBuf and String (the chunk loops'    *)
(* targets) accept their own kind and raise the visitor's own type error   *)
(* ("Custom") on every other kind.                                         *)
(***************************************************************************)
EXTENDS Integers, Sequences, FiniteSets, TLC

VARIABLES input, reader, first, stack, pc, ret, value, result, accepts, alloc

vars == <<input, reader, first, stack, pc, ret, value, result, accepts, alloc>>

\* ------------------------------------------------------------------ bounds

\* Longest input of the general specification, in bytes.
MaxLen == 3

\* Most positional fields a visitor asks visit_tuple for.
MaxFields == 1

\* Most items after the header of an indefinite-length string.
MaxChunks == 3

\* Most tag headers in front of an item.
MaxTags == 2

\* ----------------------------------------------------------- program data

MAX_SEQ_LEN == 524288

Byte == 0..255

None == <<>>

Some(x) == <<x>>

Val(k, v) == [k |-> k, v |-> v]

NoVal == Val("none", <<>>)

Ok(v) == [ok |-> TRUE, val |-> v, err |-> "none"]

Err(e) == [ok |-> FALSE, val |-> NoVal, err |-> e]

\* (first & 0b111_00000) >> 5
Major(b) == b \div 32

\* first & 0b000_11111
Info(b) == b % 32

RECURSIVE Zeros(_)
Zeros(n) == IF n <= 0 THEN <<>> ELSE <<0>> \o Zeros(n - 1)

\* `x as uN` of an unsigned value of at most w bytes: zero extension.
ZExt(bs, w) == Zeros(w - Len(bs)) \o bs

\* The number a big-endian byte sequence stands for, without leading zeros.
RECURSIVE Strip(_)
Strip(bs) == IF bs # <<>> /\ Head(bs) = 0 THEN Strip(Tail(bs)) ELSE bs

\* The value of at most three significant bytes as a number.
RECURSIVE Nat3(_)
Nat3(bs) == IF bs = <<>> THEN 0 ELSE 256 * Nat3(SubSeq(bs, 1, Len(bs) - 1)) + bs[Len(bs)]

\* n > MAX_SEQ_LEN on a u64 (2^24 > MAX_SEQ_LEN: four significant bytes exceed it).
GtMaxSeqLen(bs) == LET s == Strip(bs) IN Len(s) > 3 \/ Nat3(s) > MAX_SEQ_LEN

\* Read::read_exact / byteorder's read_uN on the byte source: n bytes or an
\* io error (UnexpectedEof) that leaves the source drained.
read_exact(rd, n) ==
    IF Len(rd) >= n
    THEN [ok |-> TRUE, bytes |-> SubSeq(rd, 1, n), rd |-> SubSeq(rd, n + 1, Len(rd))]
    ELSE [ok |-> FALSE, bytes |-> <<>>, rd |-> <<>>]

\* Bytes that follow the header for additional information 24, 25, 26, 27.
ArgWidth(n) == CASE n = 24 -> 1 [] n = 25 -> 2 [] n = 26 -> 4 [] OTHER -> 8

\* parse_additional_information with 28, 29 and 30 taken like 31.
parse_additional_information_lax(b, rd) ==
    LET n == Info(b) IN
    IF n <= 23 THEN [st |-> "some", arg |-> ZExt(<<n>>, 8), rd |-> rd]
    ELSE IF n \in 24..27
    THEN LET r == read_exact(rd, ArgWidth(n)) IN
         IF r.ok THEN [st |-> "some", arg |-> ZExt(r.bytes, 8), rd |-> r.rd]
         ELSE [st |-> "Io", arg |-> <<>>, rd |-> r.rd]
    ELSE [st |-> "none", arg |-> <<>>, rd |-> rd]

\* Result<Option<u64>>: st is "some" (arg, as u64), "none" (indefinite), or the error.
parse_additional_information(b, rd) ==
    LET n == Info(b) IN
    IF n <= 23 THEN [st |-> "some", arg |-> ZExt(<<n>>, 8), rd |-> rd]
    ELSE IF n \in 24..27
    THEN LET r == read_exact(rd, ArgWidth(n)) IN
         IF r.ok THEN [st |-> "some", arg |-> ZExt(r.bytes, 8), rd |-> r.rd]
         ELSE [st |-> "Io", arg |-> <<>>, rd |-> r.rd]
    ELSE IF n = 31 THEN [st |-> "none", arg |-> <<>>, rd |-> rd]
    ELSE [st |-> "Syntax", arg |-> <<>>, rd |-> rd]

\* parse_size_information without the comparison with MAX_SEQ_LEN; a length
\* of four or more significant bytes is kept as MAX_SEQ_LEN + 1.
parse_size_information_unchecked(b, rd) ==
    LET a == parse_additional_information(b, rd) IN
    [st |-> a.st,
     n |-> IF a.st # "some" THEN 0
           ELSE IF Len(Strip(a.arg)) > 3 THEN MAX_SEQ_LEN + 1
           ELSE Nat3(Strip(a.arg)),
     rd |-> a.rd]

\* Result<Option<usize>>: n is the length as a number when st = "some".
parse_size_information(b, rd) ==
    LET a == parse_additional_information(b, rd) IN
    IF a.st = "some" /\ GtMaxSeqLen(a.arg)
    THEN [st |-> "Syntax", n |-> 0, rd |-> a.rd]
    ELSE [st |-> a.st, n |-> IF a.st = "some" THEN Nat3(Strip(a.arg)) ELSE 0, rd |-> a.rd]

\* ------------------------------------------------------- integers (w bytes)

\* a - b on w-byte two's complement numbers, least significant byte last;
\* bw is the borrow into the last byte.  The borrow out of the first is dropped.
RECURSIVE SubBytes(_, _, _)
SubBytes(a, b, bw) ==
    IF a = <<>> THEN <<>>
    ELSE LET n == Len(a)
             x == a[n] - b[n] - bw
         IN SubBytes(SubSeq(a, 1, n - 1), SubSeq(b, 1, n - 1), IF x < 0 THEN 1 ELSE 0)
              \o <<IF x < 0 THEN x + 256 ELSE x>>

RECURSIVE Ones(_)
Ones(n) == IF n <= 0 THEN <<>> ELSE <<255>> \o Ones(n - 1)

\* `-1 - x as iW`: x zero-extended (or, at equal width, reinterpreted) to w
\* bytes, subtracted from -1.
MinusOneMinus(bs, w) == SubBytes(Ones(w), ZExt(bs, w), 0)

\* --------------------------------------------------------------- text, floats

Cont(b) == b \in 128..191

\* String::from_utf8: well-formed UTF-8 (no overlong forms, no surrogates,
\* nothing above U+10FFFF).
RECURSIVE Utf8Valid(_)
Utf8Valid(bs) ==
    IF bs = <<>> THEN TRUE
    ELSE LET b == bs[1]
             n == Len(bs)
         IN IF b <= 127 THEN Utf8Valid(Tail(bs))
            ELSE IF b \in 194..223
            THEN n >= 2 /\ Cont(bs[2]) /\ Utf8Valid(SubSeq(bs, 3, n))
            ELSE IF b \in 224..239
            THEN /\ n >= 3
                 /\ bs[2] \in (CASE b = 224 -> 160..191 [] b = 237 -> 128..159 [] OTHER -> 128..191)
                 /\ Cont(bs[3])
                 /\ Utf8Valid(SubSeq(bs, 4, n))
            ELSE IF b \in 240..244
            THEN /\ n >= 4
                 /\ bs[2] \in (CASE b = 240 -> 144..191 [] b = 244 -> 128..143 [] OTHER -> 128..191)
                 /\ Cont(bs[3])
                 /\ Cont(bs[4])
                 /\ Utf8Valid(SubSeq(bs, 5, n))
            ELSE FALSE

RECURSIVE Pow2(_)
Pow2(n) == IF n <= 0 THEN 1 ELSE 2 * Pow2(n - 1)

\* floor(log2(m)) for m >= 1
RECURSIVE Log2(_)
Log2(m) == IF m <= 1 THEN 0 ELSE 1 + Log2(m \div 2)

\* The four bytes of the f32 with sign s, exponent field e and mantissa field m.
F32Bytes(s, e, m) ==
    <<s * 128 + e \div 2, (e % 2) * 128 + m \div 65536, (m \div 256) % 256, m % 256>>

\* decode_f16: the f32 (as its bytes) a binary16 bit pattern widens to.
decode_f16(half) ==
    LET h == half[1] * 256 + half[2]
        exp == (h \div 1024) % 32
        mant == h % 1024
        s == h \div 32768
    IN IF exp = 0
       THEN IF mant = 0 THEN F32Bytes(s, 0, 0)
            ELSE LET k == Log2(mant) IN F32Bytes(s, k + 103, (mant - Pow2(k)) * Pow2(23 - k))
       ELSE IF exp # 31 THEN F32Bytes(s, exp + 112, mant * 8192)
       ELSE IF mant = 0 THEN F32Bytes(s, 255, 0)
       ELSE F32Bytes(s, 255, 4194304)

\* ------------------------------------------------------------------ visitors

\* What the visitor `vis` answers when handed the value v by its accept
\* method v.k.  "any" is a target type that takes every kind.
Accept(vis, v) ==
    IF vis = "any" THEN Ok(v)
    ELSE IF vis = "ByteBuf" /\ v.k = "visit_byte_buf" THEN Ok(v)
    ELSE IF vis = "String" /\ v.k = "visit_string" THEN Ok(v)
    ELSE Err("Custom")

\* One entry of the log of accept calls: method, payload, visitor, depth of
\* the frame whose call reached the visitor.
Call(vis, v, d) == [m |-> v.k, v |-> v.v, by |-> vis, d |-> d]

\* ------------------------------------------------- outcomes of parse_value

\* The call returned `res`.
Done(res, rd, log, al) ==
    [t |-> "ret", res |-> res, rd |-> rd, log |-> log, al |-> al, role |-> "none", items |-> None]

\* The call is suspended in a chunk loop (t = "loop") or in the visitor of a
\* sequence or map (t = "composite").
Push(t, role, items, rd, log, al) ==
    [t |-> t, res |-> Ok(NoVal), rd |-> rd, log |-> log, al |-> al, role |-> role, items |-> items]

\* visitor.visit_xxx(v) as the tail call of a parse routine.
Visit(vis, v, rd, al, d) == Done(Accept(vis, v), rd, <<Call(vis, v, d)>>, al)

Fail(e, rd, al) == Done(Err(e), rd, <<>>, al)

\* Names of visit_u8, visit_u16, visit_u32, visit_u64 by argument width.
UMethod(w) == CASE w = 1 -> "visit_u8" [] w = 2 -> "visit_u16" [] w = 4 -> "visit_u32" [] OTHER -> "visit_u64"

parse_uint(b, rd, vis, d) ==
    LET n == Info(b) IN
    IF n <= 23 THEN Visit(vis, Val("visit_u8", <<n>>), rd, <<>>, d)
    ELSE IF n \in 24..27
    THEN LET r == read_exact(rd, ArgWidth(n)) IN
         IF r.ok THEN Visit(vis, Val(UMethod(ArgWidth(n)), r.bytes), r.rd, <<>>, d)
         ELSE Fail("Io", r.rd, <<>>)
    ELSE Fail("Syntax", rd, <<>>)

\* parse_int with `- x` for `-1 - x`.
parse_int_negate(b, rd, vis, d) ==
    LET n == Info(b) IN
    IF n <= 23 THEN Visit(vis, Val("visit_i8", SubBytes(Zeros(1), <<n>>, 0)), rd, <<>>, d)
    ELSE IF n \in 24..27
    THEN LET r == read_exact(rd, ArgWidth(n)) IN
         IF ~r.ok THEN Fail("Io", r.rd, <<>>)
         ELSE CASE n = 24 -> Visit(vis, Val("visit_i16", SubBytes(Zeros(2), ZExt(r.bytes, 2), 0)), r.rd, <<>>, d)
                [] n = 25 -> Visit(vis, Val("visit_i32", SubBytes(Zeros(4), ZExt(r.bytes, 4), 0)), r.rd, <<>>, d)
                [] OTHER -> Visit(vis, Val("visit_i64", SubBytes(Zeros(8), ZExt(r.bytes, 8), 0)), r.rd, <<>>, d)
    ELSE Fail("Syntax", rd, <<>>)

parse_int(b, rd, vis, d) ==
    LET n == Info(b) IN
    IF n <= 23 THEN Visit(vis, Val("visit_i8", MinusOneMinus(<<n>>, 1)), rd, <<>>, d)
    ELSE IF n \in 24..27
    THEN LET r == read_exact(rd, ArgWidth(n)) IN
         IF ~r.ok THEN Fail("Io", r.rd, <<>>)
         ELSE CASE n = 24 -> Visit(vis, Val("visit_i16", MinusOneMinus(r.bytes, 2)), r.rd, <<>>, d)
                [] n = 25 -> Visit(vis, Val("visit_i32", MinusOneMinus(r.bytes, 4)), r.rd, <<>>, d)
                [] OTHER -> Visit(vis, Val("visit_i64", MinusOneMinus(r.bytes, 8)), r.rd, <<>>, d)
    ELSE Fail("Syntax", rd, <<>>)

parse_byte_buf(b, rd, vis, d) ==
    LET s == parse_size_information(b, rd) IN
    IF s.st = "some"
    THEN LET r == read_exact(s.rd, s.n) IN
         IF r.ok THEN Visit(vis, Val("visit_byte_buf", r.bytes), r.rd, <<s.n>>, d)
         ELSE Fail("Io", r.rd, <<s.n>>)
    ELSE IF s.st = "none" THEN Push("loop", "bytes", None, s.rd, <<>>, <<>>)
    ELSE Fail(s.st, s.rd, <<>>)

parse_string(b, rd, vis, d) ==
    LET s == parse_size_information(b, rd) IN
    IF s.st = "some"
    THEN LET r == read_exact(s.rd, s.n) IN
         IF ~r.ok THEN Fail("Io", r.rd, <<s.n>>)
         ELSE IF ~Utf8Valid(r.bytes) THEN Fail("FromUtf8", r.rd, <<s.n>>)
         ELSE Visit(vis, Val("visit_string", r.bytes), r.rd, <<s.n>>, d)
    ELSE IF s.st = "none" THEN Push("loop", "string", None, s.rd, <<>>, <<>>)
    ELSE Fail(s.st, s.rd, <<>>)

\* parse_seq / parse_map: the visitor is handed a CompositeVisitor.  "any"
\* keeps it (the call is suspended in the visitor); ByteBuf and String answer
\* visit_seq / visit_map with their type error.
parse_composite(b, rd, vis, d, role) ==
    LET s == parse_size_information(b, rd)
        m == IF role = "seq" THEN "visit_seq" ELSE "visit_map"
    IN IF s.st \notin {"some", "none"} THEN Fail(s.st, s.rd, <<>>)
       ELSE IF vis # "any" THEN Visit(vis, Val(m, <<>>), s.rd, <<>>, d)
       ELSE Push("composite", role, IF s.st = "some" THEN Some(s.n) ELSE None, s.rd,
                 <<Call(vis, Val(m, <<>>), d)>>, <<>>)

parse_seq(b, rd, vis, d) == parse_composite(b, rd, vis, d, "seq")

parse_map(b, rd, vis, d) == parse_composite(b, rd, vis, d, "map")

parse_simple_value(b, rd, vis, d) ==
    LET n == Info(b) IN
    CASE n = 20 -> Visit(vis, Val("visit_bool", <<0>>), rd, <<>>, d)
      [] n = 21 -> Visit(vis, Val("visit_bool", <<1>>), rd, <<>>, d)
      [] n \in {22, 23} -> Visit(vis, Val("visit_unit", <<>>), rd, <<>>, d)
      [] n = 25 -> LET r == read_exact(rd, 2) IN
                   IF r.ok THEN Visit(vis, Val("visit_f32", decode_f16(r.bytes)), r.rd, <<>>, d)
                   ELSE Fail("Io", r.rd, <<>>)
      [] n = 26 -> LET r == read_exact(rd, 4) IN
                   IF r.ok THEN Visit(vis, Val("visit_f32", r.bytes), r.rd, <<>>, d)
                   ELSE Fail("Io", r.rd, <<>>)
      [] n = 27 -> LET r == read_exact(rd, 8) IN
                   IF r.ok THEN Visit(vis, Val("visit_f64", r.bytes), r.rd, <<>>, d)
                   ELSE Fail("Io", r.rd, <<>>)
      [] n = 31 -> Fail("StopCode", rd, <<>>)
      [] OTHER -> Fail("Syntax", rd, <<>>)

RECURSIVE parse_value(_, _, _, _)

\* parse_tag without the parse of the tag's argument.
parse_tag_no_argument(b, rd, vis, d) ==
    LET r == read_exact(rd, 1) IN
    IF ~r.ok THEN Fail("Io", r.rd, <<>>)
    ELSE parse_value(r.bytes[1], r.rd, vis, d)

\* parse_tag: the argument is parsed and dropped, the next byte goes through
\* the lookahead slot into parse_value.
parse_tag(b, rd, vis, d) ==
    LET a == parse_additional_information(b, rd) IN
    IF a.st \notin {"some", "none"} THEN Fail(a.st, a.rd, <<>>)
    ELSE LET r == read_exact(a.rd, 1) IN
         IF ~r.ok THEN Fail("Io", r.rd, <<>>)
         ELSE parse_value(r.bytes[1], r.rd, vis, d)

\* parse_value with self.first = Some(b): the slot is emptied and the major
\* type picks the parse routine.
parse_value(b, rd, vis, d) ==
    CASE Major(b) = 0 -> parse_uint(b, rd, vis, d)
      [] Major(b) = 1 -> parse_int(b, rd, vis, d)
      [] Major(b) = 2 -> parse_byte_buf(b, rd, vis, d)
      [] Major(b) = 3 -> parse_string(b, rd, vis, d)
      [] Major(b) = 4 -> parse_seq(b, rd, vis, d)
      [] Major(b) = 5 -> parse_map(b, rd, vis, d)
      [] Major(b) = 6 -> parse_tag(b, rd, vis, d)
      [] OTHER -> parse_simple_value(b, rd, vis, d)

\* -------------------------------------------------------------------- frames

\* A frame of the call stack.  kind: "from_reader", "loop" (the indefinite
\* branch of parse_byte_buf / parse_string), "composite" (a CompositeVisitor in
\* the hands of a sequence or map visitor), "variant" (one in the hands of an
\* EnumVisitor).  items is CompositeVisitor.items; acc the loop's bytes /
\* string; wait the call the frame is suspended in; vis the visitor the frame's
\* routine reports to; via the routine that made the frame.  n0, pulls, got,
\* last, fin, sel, entry and len record the frame's history: items at
\* creation, item decodes started by _visit, items handed to the visitor, the
\* answer of the last _visit ("some" or "nomore"), the error or Ok answered by
\* _end, visit_unit or visit_tuple, whether visit_variant has run, the entry
\* points of the Deserializer entered on the frame's behalf, in order, the
\* len that visit_tuple was called with, whether _visit was called again
\* after it had answered "no more items", and the calls of visit_value.
Frame(kind, role, items, vis, via) ==
    [kind |-> kind, role |-> role, items |-> items, acc |-> <<>>, wait |-> "none",
     vis |-> vis, via |-> via, n0 |-> items, pulls |-> 0, got |-> 0,
     last |-> "fresh", fin |-> "none", sel |-> FALSE, entry |-> <<>>, len |-> None,
     again |-> FALSE, vals |-> 0]

Top == stack[Len(stack)]

SetTop(f) == [stack EXCEPT ![Len(stack)] = f]

\* The stack with the entry point e noted in the calling frame.
Entered(e) == SetTop([Top EXCEPT !.entry = Append(@, e)])

Pop == SubSeq(stack, 1, Len(stack) - 1)

\* The visitor of the Deserialize impl a frame calls: the chunk loops call
\* ByteBuf::deserialize and String::deserialize.
VisitorOf(f) ==
    IF f.kind = "loop" THEN (IF f.role = "bytes" THEN "ByteBuf" ELSE "String") ELSE "any"

\* Calls that are known to enter Deserializer::deserialize: those of the chunk
\* loops (deserialize_bytes and deserialize_string forward to it) and the direct
\* call of visit_struct.  Every other call is T::deserialize of a target type
\* of the caller's choice, which enters any of the three entry points.
Forced(f) == f.kind = "loop" \/ f.wait = "visit_struct"

\* self.first = None at the end of Deserializer::deserialize, for a frame that
\* parse_value made.
FirstAfter(f) == IF f.via = "deserialize" THEN None ELSE first

\* ------------------------------------------------------------------- actions

\* deserialize with the header byte looked at and left in the source.
deserialize_peek ==
    /\ pc = "call"
    /\ LET h == IF first = None
                THEN [ok |-> reader # <<>>,
                      bytes |-> IF reader = <<>> THEN <<>> ELSE <<Head(reader)>>,
                      rd |-> reader]
                ELSE [ok |-> TRUE, bytes |-> first, rd |-> reader]
       IN IF ~h.ok
          THEN /\ reader' = h.rd
               /\ ret' = Some(Err("Io"))
               /\ pc' = "ret"
               /\ stack' = Entered("deserialize")
               /\ UNCHANGED <<first, accepts, alloc>>
          ELSE LET o == parse_value(h.bytes[1], h.rd, VisitorOf(Top), Len(stack)) IN
               /\ reader' = o.rd
               /\ first' = None
               /\ accepts' = accepts \o o.log
               /\ alloc' = alloc \o o.al
               /\ IF o.t = "ret"
                  THEN ret' = Some(o.res) /\ pc' = "ret" /\ stack' = Entered("deserialize")
                  ELSE /\ ret' = None
                       /\ pc' = IF o.t = "loop" THEN "call" ELSE "visitor"
                       /\ stack' = Append(Entered("deserialize"), Frame(o.t, o.role, o.items,
                                                       VisitorOf(Top), "deserialize"))
    /\ UNCHANGED <<input, value, result>>

\* Deserializer::deserialize: the header comes from the lookahead slot or the
\* source, parse_value runs, the slot is emptied.
deserialize ==
    /\ pc = "call"
    /\ LET h == IF first = None THEN read_exact(reader, 1)
                ELSE [ok |-> TRUE, bytes |-> first, rd |-> reader]
       IN IF ~h.ok
          THEN /\ reader' = h.rd
               /\ ret' = Some(Err("Io"))
               /\ pc' = "ret"
               /\ stack' = Entered("deserialize")
               /\ UNCHANGED <<first, accepts, alloc>>
          ELSE LET o == parse_value(h.bytes[1], h.rd, VisitorOf(Top), Len(stack)) IN
               /\ reader' = o.rd
               /\ first' = None
               /\ accepts' = accepts \o o.log
               /\ alloc' = alloc \o o.al
               /\ IF o.t = "ret"
                  THEN ret' = Some(o.res) /\ pc' = "ret" /\ stack' = Entered("deserialize")
                  ELSE /\ ret' = None
                       /\ pc' = IF o.t = "loop" THEN "call" ELSE "visitor"
                       /\ stack' = Append(Entered("deserialize"), Frame(o.t, o.role, o.items,
                                                       VisitorOf(Top), "deserialize"))
    /\ UNCHANGED <<input, value, result>>

\* Deserializer::deserialize_option: one byte into the slot; null is
\* visit_none, anything else visit_some(self), whose visitor calls
\* T::deserialize(self) for the payload type.
deserialize_option ==
    /\ pc = "call"
    /\ ~Forced(Top)
    /\ LET r == read_exact(reader, 1) IN
       /\ reader' = r.rd
       /\ IF ~r.ok
          THEN /\ ret' = Some(Err("Io"))
               /\ pc' = "ret"
               /\ UNCHANGED <<first, accepts>>
          ELSE IF r.bytes[1] = 246
          THEN /\ first' = None
               /\ accepts' = Append(accepts, Call("any", Val("visit_none", <<>>), Len(stack)))
               /\ ret' = Some(Ok(Val("visit_none", <<>>)))
               /\ pc' = "ret"
          ELSE /\ first' = Some(r.bytes[1])
               /\ accepts' = Append(accepts, Call("any", Val("visit_some", <<>>), Len(stack)))
               /\ ret' = None
               /\ pc' = "call"
    /\ stack' = Entered("deserialize_option")
    /\ UNCHANGED <<input, value, result, alloc>>

\* Deserializer::deserialize_enum: a text string is left in the slot with
\* Some(0) items, a sequence header gives its length, anything else is Syntax.
deserialize_enum ==
    /\ pc = "call"
    /\ ~Forced(Top)
    /\ LET r == read_exact(reader, 1)
           b == r.bytes[1]
           s == parse_size_information(b, r.rd)
       IN IF ~r.ok
          THEN /\ reader' = r.rd
               /\ ret' = Some(Err("Io"))
               /\ pc' = "ret"
               /\ stack' = Entered("deserialize_enum")
               /\ UNCHANGED <<first, accepts>>
          ELSE IF Major(b) = 3
          THEN /\ reader' = r.rd
               /\ first' = Some(b)
               /\ ret' = None
               /\ pc' = "visitor"
               /\ accepts' = Append(accepts, Call("any", Val("visit", <<>>), Len(stack)))
               /\ stack' = Append(Entered("deserialize_enum"),
                                  Frame("variant", "variant", Some(0), "any",
                                        "deserialize_enum"))
          ELSE IF Major(b) = 4 /\ s.st \in {"some", "none"}
          THEN /\ reader' = s.rd
               /\ ret' = None
               /\ pc' = "visitor"
               /\ accepts' = Append(accepts, Call("any", Val("visit", <<>>), Len(stack)))
               /\ stack' = Append(Entered("deserialize_enum"),
                                  Frame("variant", "variant",
                                        IF s.st = "some" THEN Some(s.n) ELSE None,
                                        "any", "deserialize_enum"))
               /\ UNCHANGED first
          ELSE /\ reader' = IF Major(b) = 4 THEN s.rd ELSE r.rd
               /\ ret' = Some(Err(IF Major(b) = 4 THEN s.st ELSE "Syntax"))
               /\ pc' = "ret"
               /\ stack' = Entered("deserialize_enum")
               /\ UNCHANGED <<first, accepts>>
    /\ UNCHANGED <<input, value, result, alloc>>

\* _visit without `*n -= 1`.
_visit_no_decrement ==
    /\ pc = "visitor"
    /\ Top.kind = "composite"
    /\ IF Top.items = Some(0)
       THEN /\ stack' = SetTop([Top EXCEPT !.last = "nomore",
                                           !.again = @ \/ Top.last = "nomore"])
            /\ pc' = "visitor"
       ELSE /\ stack' = SetTop([Top EXCEPT !.pulls = @ + 1, !.wait = "_visit"])
            /\ pc' = "call"
    /\ UNCHANGED <<input, reader, first, ret, value, result, accepts, alloc>>

\* _visit without the `Some(0) => return Ok(None)` arm once the end has been
\* reported: the pull goes on to decode.
_visit_reads_at_end ==
    /\ pc = "visitor"
    /\ Top.kind = "composite"
    /\ IF Top.items = Some(0) /\ Top.last # "nomore"
       THEN /\ stack' = SetTop([Top EXCEPT !.last = "nomore"])
            /\ pc' = "visitor"
       ELSE /\ stack' = SetTop([Top EXCEPT
                                  !.items = IF Top.items \in {None, Some(0)} THEN Top.items
                                            ELSE Some(Top.items[1] - 1),
                                  !.pulls = @ + 1,
                                  !.wait = "_visit"])
            /\ pc' = "call"
    /\ UNCHANGED <<input, reader, first, ret, value, result, accepts, alloc>>

\* CompositeVisitor::_visit up to its call of Deserialize::deserialize
\* (SeqVisitor::visit, MapVisitor::visit_key).
_visit ==
    /\ pc = "visitor"
    /\ Top.kind = "composite"
    /\ IF Top.items = Some(0)
       THEN /\ stack' = SetTop([Top EXCEPT !.last = "nomore",
                                           !.again = @ \/ Top.last = "nomore"])
            /\ pc' = "visitor"
       ELSE /\ stack' = SetTop([Top EXCEPT
                                  !.items = IF Top.items = None THEN None
                                            ELSE Some(Top.items[1] - 1),
                                  !.pulls = @ + 1,
                                  !.wait = "_visit"])
            /\ pc' = "call"
    /\ UNCHANGED <<input, reader, first, ret, value, result, accepts, alloc>>

\* _visit_ret without `self.items = Some(0)` in the stop-code arm.
_visit_ret_no_transition ==
    /\ pc = "ret"
    /\ Top.kind = "composite"
    /\ Top.wait = "_visit"
    /\ LET r == ret[1] IN
       IF r.ok
       THEN /\ stack' = SetTop([Top EXCEPT !.wait = "none", !.last = "some", !.got = @ + 1])
            /\ ret' = None
            /\ pc' = "visitor"
            /\ UNCHANGED first
       ELSE IF r.err = "StopCode" /\ Top.items = None
       THEN /\ stack' = SetTop([Top EXCEPT !.wait = "none", !.last = "nomore"])
            /\ ret' = None
            /\ pc' = "visitor"
            /\ UNCHANGED first
       ELSE /\ stack' = Pop
            /\ ret' = Some(r)
            /\ pc' = "ret"
            /\ first' = FirstAfter(Top)
    /\ UNCHANGED <<input, reader, value, result, accepts, alloc>>

\* _visit_ret with an Io error taken for the end of the composite.
_visit_ret_eof_ends ==
    /\ pc = "ret"
    /\ Top.kind = "composite"
    /\ Top.wait = "_visit"
    /\ LET r == ret[1] IN
       IF r.ok
       THEN /\ stack' = SetTop([Top EXCEPT !.wait = "none", !.last = "some", !.got = @ + 1])
            /\ ret' = None
            /\ pc' = "visitor"
            /\ UNCHANGED first
       ELSE IF (r.err = "StopCode" /\ Top.items = None) \/ r.err = "Io"
       THEN /\ stack' = SetTop([Top EXCEPT !.wait = "none", !.last = "nomore",
                                           !.items = Some(0)])
            /\ ret' = None
            /\ pc' = "visitor"
            /\ UNCHANGED first
       ELSE /\ stack' = Pop
            /\ ret' = Some(r)
            /\ pc' = "ret"
            /\ first' = FirstAfter(Top)
    /\ UNCHANGED <<input, reader, value, result, accepts, alloc>>

\* CompositeVisitor::_visit from the return of Deserialize::deserialize: the
\* stop code ends an indefinite composite; an error goes to the visitor, which
\* returns it.
_visit_ret ==
    /\ pc = "ret"
    /\ Top.kind = "composite"
    /\ Top.wait = "_visit"
    /\ LET r == ret[1] IN
       IF r.ok
       THEN /\ stack' = SetTop([Top EXCEPT !.wait = "none", !.last = "some", !.got = @ + 1])
            /\ ret' = None
            /\ pc' = "visitor"
            /\ UNCHANGED first
       ELSE IF r.err = "StopCode" /\ Top.items = None
       THEN /\ stack' = SetTop([Top EXCEPT !.wait = "none", !.last = "nomore",
                                           !.items = Some(0)])
            /\ ret' = None
            /\ pc' = "visitor"
            /\ UNCHANGED first
       ELSE /\ stack' = Pop
            /\ ret' = Some(r)
            /\ pc' = "ret"
            /\ first' = FirstAfter(Top)
    /\ UNCHANGED <<input, reader, value, result, accepts, alloc>>

\* visit_value going through the count like visit_key.
visit_value_counted ==
    /\ pc = "visitor"
    /\ Top.kind = "composite"
    /\ Top.role = "map"
    /\ stack' = SetTop([Top EXCEPT !.wait = "visit_value", !.vals = @ + 1,
                                   !.items = IF Top.items \in {None, Some(0)} THEN Top.items
                                             ELSE Some(Top.items[1] - 1)])
    /\ pc' = "call"
    /\ UNCHANGED <<input, reader, first, ret, value, result, accepts, alloc>>

\* MapVisitor::visit_value up to its call of Deserialize::deserialize.
visit_value ==
    /\ pc = "visitor"
    /\ Top.kind = "composite"
    /\ Top.role = "map"
    /\ stack' = SetTop([Top EXCEPT !.wait = "visit_value", !.vals = @ + 1])
    /\ pc' = "call"
    /\ UNCHANGED <<input, reader, first, ret, value, result, accepts, alloc>>

\* MapVisitor::visit_value from the return of Deserialize::deserialize.
visit_value_ret ==
    /\ pc = "ret"
    /\ Top.kind = "composite"
    /\ Top.wait = "visit_value"
    /\ IF ret[1].ok
       THEN /\ stack' = SetTop([Top EXCEPT !.wait = "none"])
            /\ ret' = None
            /\ pc' = "visitor"
            /\ UNCHANGED first
       ELSE /\ stack' = Pop
            /\ pc' = "ret"
            /\ first' = FirstAfter(Top)
            /\ UNCHANGED ret
    /\ UNCHANGED <<input, reader, value, result, accepts, alloc>>

\* _end with `if let Some(_)` for `if let Some(0)`.
_end_any_known ==
    /\ pc = "visitor"
    /\ Top.kind = "composite"
    /\ stack' = SetTop([Top EXCEPT !.fin = IF Top.items # None THEN "Ok"
                                           ELSE "TrailingBytes"])
    /\ pc' = "return"
    /\ UNCHANGED <<input, reader, first, ret, value, result, accepts, alloc>>

\* CompositeVisitor::_end (SeqVisitor::end, MapVisitor::end).  Its answer is
\* kept in the frame (fin) until the visitor returns.
_end ==
    /\ pc = "visitor"
    /\ Top.kind = "composite"
    /\ stack' = SetTop([Top EXCEPT !.fin = IF Top.items = Some(0) THEN "Ok"
                                           ELSE "TrailingBytes"])
    /\ pc' = "return"
    /\ UNCHANGED <<input, reader, first, ret, value, result, accepts, alloc>>

\* The visitor returns from visit_seq / visit_map after end(): its value, or
\* the error of end (try!).  parse_seq / parse_map return it, and
\* Deserializer::deserialize empties the slot.  Likewise the EnumVisitor
\* returns from visit after visit_unit or a refusal of visit_tuple, and
\* deserialize_enum returns that.
visit_seq_ret ==
    /\ pc = "return"
    /\ ret' = Some(IF Top.fin = "Ok" THEN Ok(Val(Top.role, <<Top.got>>))
                   ELSE Err(Top.fin))
    /\ stack' = Pop
    /\ pc' = "ret"
    /\ first' = FirstAfter(Top)
    /\ UNCHANGED <<input, reader, value, result, accepts, alloc>>

\* chunk with the new chunk put in front of what was gathered.
chunk_prepend ==
    /\ pc = "ret"
    /\ Top.kind = "loop"
    /\ LET r == ret[1]
           v == Val(IF Top.role = "bytes" THEN "visit_byte_buf" ELSE "visit_string", Top.acc)
       IN IF r.ok
          THEN /\ stack' = SetTop([Top EXCEPT !.acc = r.val.v \o @])
               /\ ret' = None
               /\ pc' = "call"
               /\ UNCHANGED <<first, accepts>>
          ELSE /\ stack' = Pop
               /\ pc' = "ret"
               /\ first' = None
               /\ IF r.err = "StopCode"
                  THEN /\ ret' = Some(Accept(Top.vis, v))
                       /\ accepts' = Append(accepts, Call(Top.vis, v, Len(stack) - 1))
                  ELSE UNCHANGED <<ret, accepts>>
    /\ UNCHANGED <<input, reader, value, result, alloc>>

\* The match of the loops of parse_byte_buf and parse_string on the result of
\* ByteBuf::deserialize / String::deserialize: append, break and hand the
\* whole to the visitor, or fail.
chunk ==
    /\ pc = "ret"
    /\ Top.kind = "loop"
    /\ LET r == ret[1]
           v == Val(IF Top.role = "bytes" THEN "visit_byte_buf" ELSE "visit_string", Top.acc)
       IN IF r.ok
          THEN /\ stack' = SetTop([Top EXCEPT !.acc = @ \o r.val.v])
               /\ ret' = None
               /\ pc' = "call"
               /\ UNCHANGED <<first, accepts>>
          ELSE /\ stack' = Pop
               /\ pc' = "ret"
               /\ first' = None
               /\ IF r.err = "StopCode"
                  THEN /\ ret' = Some(Accept(Top.vis, v))
                       /\ accepts' = Append(accepts, Call(Top.vis, v, Len(stack) - 1))
                  ELSE UNCHANGED <<ret, accepts>>
    /\ UNCHANGED <<input, reader, value, result, alloc>>

\* end with the two arms of its `if` exchanged.
end_swapped(rd) ==
    LET n == IF Len(rd) = 0 THEN 0 ELSE 1 IN
    [n |-> n, rd |-> SubSeq(rd, n + 1, Len(rd)),
     res |-> IF n = 0 THEN Err("TrailingBytes") ELSE Ok(NoVal)]

\* Deserializer::end: one probe byte, which must not be there.
end(rd) ==
    LET n == IF Len(rd) = 0 THEN 0 ELSE 1 IN
    [n |-> n, rd |-> SubSeq(rd, n + 1, Len(rd)),
     res |-> IF n = 0 THEN Ok(NoVal) ELSE Err("TrailingBytes")]

\* from_reader (and from_slice) from the return of Deserialize::deserialize:
\* try!, de.end(), Ok(value).
from_reader ==
    /\ pc = "ret"
    /\ Top.kind = "from_reader"
    /\ pc' = "done"
    /\ ret' = None
    /\ IF ret[1].ok
       THEN LET e == end(reader) IN
            /\ value' = Some(ret[1].val)
            /\ reader' = e.rd
            /\ result' = Some(IF e.res.ok THEN ret[1] ELSE e.res)
       ELSE /\ result' = ret
            /\ UNCHANGED <<value, reader>>
    /\ UNCHANGED <<input, first, stack, accepts, alloc>>

\* VariantVisitor::visit_variant up to its call of Deserialize::deserialize.
\* An EnumVisitor asks for the variant first, then for its content.
visit_variant ==
    /\ pc = "visitor"
    /\ Top.kind = "variant"
    /\ ~Top.sel
    /\ stack' = SetTop([Top EXCEPT !.wait = "visit_variant", !.sel = TRUE])
    /\ pc' = "call"
    /\ UNCHANGED <<input, reader, first, ret, value, result, accepts, alloc>>

\* VariantVisitor::visit_unit.  Its answer is kept in the frame (fin) until
\* the EnumVisitor returns it.
visit_unit ==
    /\ pc = "visitor"
    /\ Top.kind = "variant"
    /\ Top.sel
    /\ stack' = SetTop([Top EXCEPT !.wait = "visit_unit",
                                   !.fin = IF Top.items = Some(0) THEN "Ok" ELSE "Syntax"])
    /\ pc' = "return"
    /\ UNCHANGED <<input, reader, first, ret, value, result, accepts, alloc>>

\* VariantVisitor::visit_newtype up to its call of Deserialize::deserialize.
visit_newtype ==
    /\ pc = "visitor"
    /\ Top.kind = "variant"
    /\ Top.sel
    /\ stack' = SetTop([Top EXCEPT !.wait = "visit_newtype"])
    /\ pc' = "call"
    /\ UNCHANGED <<input, reader, first, ret, value, result, accepts, alloc>>

\* visit_tuple with `Some(len)` for `Some(len + 1)`.
visit_tuple_len ==
    /\ pc = "visitor"
    /\ Top.kind = "variant"
    /\ Top.sel
    /\ \E len \in 0..MaxFields :
          IF Top.items # None /\ Top.items # Some(len)
          THEN /\ stack' = SetTop([Top EXCEPT !.wait = "visit_tuple", !.len = Some(len),
                                              !.fin = "Syntax"])
               /\ pc' = "return"
               /\ UNCHANGED accepts
          ELSE /\ stack' = Append(SetTop([Top EXCEPT !.wait = "visit_tuple",
                                                     !.len = Some(len)]),
                                  Frame("composite", "seq", Some(len), "any", "visit_tuple"))
               /\ pc' = "visitor"
               /\ accepts' = Append(accepts, Call("any", Val("visit_seq", <<>>), Len(stack)))
    /\ UNCHANGED <<input, reader, first, ret, value, result, alloc>>

\* VariantVisitor::visit_tuple(len, visitor): the length check, whose Syntax
\* the EnumVisitor returns, then a new CompositeVisitor of len items for
\* visitor.visit_seq.
visit_tuple ==
    /\ pc = "visitor"
    /\ Top.kind = "variant"
    /\ Top.sel
    /\ \E len \in 0..MaxFields :
          IF Top.items # None /\ Top.items # Some(len + 1)
          THEN /\ stack' = SetTop([Top EXCEPT !.wait = "visit_tuple", !.len = Some(len),
                                              !.fin = "Syntax"])
               /\ pc' = "return"
               /\ UNCHANGED accepts
          ELSE /\ stack' = Append(SetTop([Top EXCEPT !.wait = "visit_tuple",
                                                     !.len = Some(len)]),
                                  Frame("composite", "seq", Some(len), "any", "visit_tuple"))
               /\ pc' = "visitor"
               /\ accepts' = Append(accepts, Call("any", Val("visit_seq", <<>>), Len(stack)))
    /\ UNCHANGED <<input, reader, first, ret, value, result, alloc>>

\* VariantVisitor::visit_struct: de::Deserializer::deserialize(self.de, visitor).
visit_struct ==
    /\ pc = "visitor"
    /\ Top.kind = "variant"
    /\ Top.sel
    /\ stack' = SetTop([Top EXCEPT !.wait = "visit_struct"])
    /\ pc' = "call"
    /\ UNCHANGED <<input, reader, first, ret, value, result, accepts, alloc>>

\* The return of a call made through the VariantVisitor: the variant goes back
\* to the EnumVisitor, which propagates an error; the content's result is the
\* EnumVisitor's own.
variant_ret ==
    /\ pc = "ret"
    /\ Top.kind = "variant"
    /\ IF Top.wait = "visit_variant" /\ ret[1].ok
       THEN /\ stack' = SetTop([Top EXCEPT !.wait = "none"])
            /\ ret' = None
            /\ pc' = "visitor"
       ELSE /\ stack' = Pop
            /\ pc' = "ret"
            /\ UNCHANGED ret
    /\ UNCHANGED <<input, reader, first, value, result, accepts, alloc>>

\* ------------------------------------------------------------ specifications

\* Header bytes of the general specification: an unsigned integer, the
\* indefinite byte string, a sequence of two, the indefinite sequence, a map
\* of one pair, the indefinite map and the stop byte.
Bytes == {1, 95, 130, 159, 161, 191, 255}

SeqsUpTo(S, n) == UNION {[1..k -> S] : k \in 0..n}

\* from_reader(input) after Deserializer::new, about to call
\* Deserialize::deserialize(&mut de).
InitWith(in) ==
    /\ input = in
    /\ reader = in
    /\ first = None
    /\ stack = <<[Frame("from_reader", "top", None, "any", "from_reader")
                    EXCEPT !.wait = "deserialize"]>>
    /\ pc = "call"
    /\ ret = None
    /\ value = None
    /\ result = None
    /\ accepts = <<>>
    /\ alloc = <<>>

Init == \E in \in SeqsUpTo(Bytes, MaxLen) : InitWith(in)

Next ==
    \/ deserialize
    \/ deserialize_option
    \/ deserialize_enum
    \/ _visit
    \/ _visit_ret
    \/ visit_value
    \/ visit_value_ret
    \/ _end
    \/ visit_seq_ret
    \/ chunk
    \/ visit_variant
    \/ visit_unit
    \/ visit_newtype
    \/ visit_tuple
    \/ visit_struct
    \/ variant_ret
    \/ from_reader

Spec == Init /\ [][Next]_vars

\* Integers: every header of major type 0 and 1, with arguments whose first
\* byte is one of IntHeads and whose other bytes are 0 or 255, and the
\* minimal-width encoding of every value those arguments stand for.
IntHeads == {0, 1, 23, 24, 127, 128, 255}

IntArgs(w) == {<<h>> \o t : h \in IntHeads, t \in [1..(w - 1) -> {0, 255}]}

\* Unsigned values 0 .. 2^64 - 1, as bytes without leading zeros.
UVals == {Strip(a) : a \in UNION {IntArgs(w) : w \in 1..8}}

\* The minimal-width encoding of the argument v under major type mt.
EncodeArg(mt, v) ==
    IF v = <<>> THEN <<mt * 32>>
    ELSE IF Len(v) = 1 /\ v[1] <= 23 THEN <<mt * 32 + v[1]>>
    ELSE IF Len(v) = 1 THEN <<mt * 32 + 24>> \o v
    ELSE IF Len(v) = 2 THEN <<mt * 32 + 25>> \o v
    ELSE IF Len(v) <= 4 THEN <<mt * 32 + 26>> \o ZExt(v, 4)
    ELSE <<mt * 32 + 27>> \o ZExt(v, 8)

IntInputs ==
    {<<mt * 32 + i>> : mt \in {0, 1}, i \in 0..31}
      \cup UNION {{<<mt * 32 + i>> \o a : a \in IntArgs(ArgWidth(i))} : mt \in {0, 1}, i \in 24..27}
      \cup {EncodeArg(mt, v) : mt \in {0, 1}, v \in UVals}

InitInt == \E in \in IntInputs : InitWith(in)

NextInt ==
    \/ deserialize
    \/ from_reader

SpecInt == InitInt /\ [][NextInt]_vars

\* Lengths: a header of major type 2..5 with a 4- or 8-byte length around
\* MAX_SEQ_LEN (0x00080000), followed by a little more input.
SizeBytes == {0, 1, 8, 255}

SizeArgs ==
    [1..4 -> SizeBytes]
      \cup {p \o a : p \in {<<0, 0, 0, 0>>, <<0, 0, 0, 1>>, <<128, 0, 0, 0>>},
                     a \in [1..4 -> SizeBytes]}

SizeTails == {<<>>, <<1, 1>>, <<95, 255>>}

SizeInputs ==
    {<<mt * 32 + (IF Len(a) = 4 THEN 26 ELSE 27)>> \o a \o t :
        mt \in 2..5, a \in SizeArgs, t \in SizeTails}

InitSize == \E in \in SizeInputs : InitWith(in)

\* Target types without Option.
NextSize ==
    \/ deserialize
    \/ deserialize_enum
    \/ _visit
    \/ _visit_ret
    \/ visit_value
    \/ visit_value_ret
    \/ _end
    \/ visit_seq_ret
    \/ chunk
    \/ visit_variant
    \/ visit_unit
    \/ visit_newtype
    \/ visit_tuple
    \/ visit_struct
    \/ variant_ret
    \/ from_reader

SpecSize == InitSize /\ [][NextSize]_vars

\* Indefinite-length strings: the header 0x5F or 0x7F followed by up to
\* MaxChunks items: chunks of both string types, stop bytes, nested
\* indefinite-length headers, a tag, an integer, a sequence header.
StrItems ==
    {<<64>>, <<65, 65>>, <<65, 66>>, <<88, 1, 66>>, <<97, 65>>, <<97, 255>>,
     <<95>>, <<127>>, <<255>>, <<193>>, <<1>>, <<129>>}

RECURSIVE StrTails(_)
StrTails(k) ==
    IF k = 0 THEN {<<>>}
    ELSE {<<>>} \cup {i \o t : i \in StrItems, t \in StrTails(k - 1)}

InitStr == \E h \in {95, 127}, t \in StrTails(MaxChunks) : InitWith(<<h>> \o t)

\* A ByteBuf or String target: the chunk loops and the entry point.
NextStr == deserialize \/ chunk \/ from_reader

SpecStr == InitStr /\ [][NextStr]_vars

\* Target types that enter Deserializer::deserialize only: no Option, no enum.
NextPlain ==
    \/ deserialize
    \/ _visit
    \/ _visit_ret
    \/ visit_value
    \/ visit_value_ret
    \/ _end
    \/ visit_seq_ret
    \/ chunk
    \/ from_reader

\* Tags: up to MaxTags tag headers, with the tag number in the header or in
\* 1, 2, 4 or 8 bytes, in front of an item of every major type (whole, cut
\* short, or none), with or without a byte after it.
TagHeads ==
    {<<193>>, <<216, 7>>, <<217, 1, 0>>, <<218, 0, 0, 0, 1>>,
     <<219, 0, 0, 0, 0, 0, 0, 0, 1>>}

RECURSIVE TagChains(_)
TagChains(k) ==
    IF k = 0 THEN {<<>>}
    ELSE {<<>>} \cup {t \o c : t \in TagHeads, c \in TagChains(k - 1)}

TagItems ==
    {<<>>, <<1>>, <<24>>, <<24, 200>>, <<28>>, <<32>>, <<57, 1, 0>>, <<65, 66>>,
     <<95, 65, 66, 255>>, <<97, 65>>, <<129, 1>>, <<130, 1>>, <<159, 1, 255>>,
     <<161, 1, 1>>, <<245>>, <<246>>, <<249, 60, 0>>, <<255>>}

InitTag ==
    \E c \in TagChains(MaxTags), x \in TagItems, t \in {<<>>, <<1>>} :
        InitWith(c \o x \o t)

SpecTag == InitTag /\ [][NextPlain]_vars

\* Variants: what deserialize_enum may find as its header (text strings,
\* sequences declaring 0 to 3 items or none, and items of other major types),
\* followed by up to three short items or stop bytes.
EnumHeads ==
    {<<96>>, <<97, 65>>, <<128>>, <<129>>, <<130>>, <<131>>, <<159>>,
     <<1>>, <<32>>, <<65, 65>>, <<95>>, <<161>>, <<193>>, <<246>>, <<255>>}

EnumInputs == {h \o t : h \in EnumHeads, t \in SeqsUpTo({1, 96, 255}, 3)} \cup {<<>>}

InitEnum == \E in \in EnumInputs : InitWith(in)

SpecEnum == InitEnum /\ [][NextSize]_vars

\* Definite-length composites, whole and cut short: a sequence or map header
\* declaring 1 to 3, up to two whole items, and the beginning of another.
TruncHeads == {<<129>>, <<130>>, <<131>>, <<152, 2>>, <<161>>, <<162>>, <<184, 2>>}

TruncItems ==
    {<<1>>, <<24, 7>>, <<95, 65, 66, 255>>, <<97, 65>>, <<128>>, <<129, 1>>, <<193, 1>>, <<245>>}

TruncTails == {<<>>, <<24>>, <<98, 65>>, <<130, 1>>, <<193>>}

TruncInputs ==
    {h \o a \o b \o t : h \in TruncHeads, a \in TruncItems \cup {<<>>},
                         b \in TruncItems \cup {<<>>}, t \in TruncTails}

InitTrunc == \E in \in TruncInputs : InitWith(in)

SpecTrunc == InitTrunc /\ [][NextPlain]_vars

\* Additional information: every header byte with the values 24 to 31 in its
\* low five bits, in all eight major types, followed by up to two bytes.
InfoInputs ==
    {<<mt * 32 + i>> \o t : mt \in 0..7, i \in 24..31, t \in SeqsUpTo({1, 255}, 2)}

InitInfo == \E in \in InfoInputs : InitWith(in)

SpecInfo == InitInfo /\ [][NextPlain]_vars

\* Maps: a header declaring 0, 1 or 2 pairs or none, followed by up to four
\* bytes that are integers, empty indefinite-length strings, nested one-pair
\* maps or stop bytes.
MapInputs ==
    {<<h>> \o t : h \in {160, 161, 162, 191}, t \in SeqsUpTo({1, 95, 161, 255}, 4)}

InitMap == \E in \in MapInputs : InitWith(in)

SpecMap == InitMap /\ [][NextPlain]_vars

\* Termination: inputs of up to three bytes that open indefinite-length
\* strings, sequences and maps, tags, integers and stop bytes.  The code is
\* sequential: whoever holds control (the decoder, or a visitor holding an
\* iterator) takes its next step, which is weak fairness of the next-state
\* relation.
LiveInputs == SeqsUpTo({1, 95, 159, 191, 193, 255}, 3)

InitLive == \E in \in LiveInputs : InitWith(in)

SpecLive == InitLive /\ [][NextPlain]_vars /\ WF_vars(NextPlain)

\* -------------------------------------------------------------------- claims

Frames == 1..Len(stack)

\* A step of _visit on the CompositeVisitor on top: the visitor keeps control
\* (no more items) or the frame is left suspended in _visit.
VisitStep ==
    /\ pc = "visitor"
    /\ Top.kind = "composite"
    /\ Len(stack') = Len(stack)
    /\ \/ pc' = "visitor"
       \/ pc' = "call" /\ Top'.wait = "_visit"

\* C1: from_reader / from_slice never return Error::StopCode, whatever the
\* input and the target type: a stop byte outside the element position of an
\* indefinite composite or the chunk position of an indefinite string is
\* reported as Syntax.  (Stated as the claim makes it; the code lets the stop
\* code out, as for the one-byte input 0xFF.)
C1_StopCodeNeverEscapes == pc = "done" => result[1].err # "StopCode"

\* C2: from_reader decodes one top-level value and then probes the source for
\* one more byte: when the decode has returned a value and a byte is left in
\* the source, the result is TrailingBytes and no value; when the source is at
\* its end, the result is the decoded value.
C2_Probe ==
    [][(pc = "ret" /\ Top.kind = "from_reader" /\ ret[1].ok) =>
         /\ pc' = "done"
         /\ value' = Some(ret[1].val)
         /\ result' = Some(IF reader = <<>> THEN Ok(ret[1].val) ELSE Err("TrailingBytes"))
         /\ reader' = IF reader = <<>> THEN <<>> ELSE Tail(reader)]_vars

C2_Returned ==
    pc = "done" =>
       /\ result[1].ok => value = Some(result[1].val) /\ reader = <<>>
       /\ value = None => ~result[1].ok

C2_TrailingBytes == []C2_Returned /\ C2_Probe

\* C2 witness: a value was decoded, a byte followed it, and from_reader
\* answered TrailingBytes.
C2_Witness ==
    /\ pc = "done"
    /\ value # None
    /\ result = Some(Err("TrailingBytes"))
    /\ Len(input) >= 2

\* C3: finish (_end) answers Ok exactly when the iterator is Known(0), and
\* TrailingBytes in Known(n > 0) and in Unknown, after any pulls.
C3_EndOkIffKnownZero ==
    \A i \in Frames :
        (stack[i].kind = "composite" /\ stack[i].fin # "none") =>
            /\ stack[i].fin \in {"Ok", "TrailingBytes"}
            /\ stack[i].fin = "Ok" <=> stack[i].items = Some(0)

\* C3 witness: an indefinite composite that handed an item to its visitor, was
\* not terminated and was finished: TrailingBytes.
C3_Witness ==
    \E i \in Frames :
        /\ stack[i].fin = "TrailingBytes"
        /\ stack[i].items = None
        /\ stack[i].got >= 1

\* C4: an iterator created Known(n): a pull in Known(m), m > 0, takes the
\* count to m - 1 and starts one item decode; a pull in Known(0) answers "no
\* more items" and leaves source, lookahead slot and count alone; so the count
\* plus the decodes started is n, and at most n pulls return an item.
C4_Counts ==
    \A i \in Frames :
        (stack[i].kind = "composite" /\ stack[i].n0 # None) =>
            /\ stack[i].items # None
            /\ stack[i].items[1] + stack[i].pulls = stack[i].n0[1]
            /\ stack[i].got <= stack[i].pulls
            /\ (i = Len(stack) /\ pc = "visitor") => stack[i].got = stack[i].pulls

C4_Pull ==
    [][(VisitStep /\ Top.n0 # None) =>
         IF Top.items = Some(0)
         THEN /\ pc' = "visitor"
              /\ Top'.items = Some(0)
              /\ Top'.last = "nomore"
              /\ Top'.got = Top.got
              /\ Top'.pulls = Top.pulls
              /\ UNCHANGED <<reader, first>>
         ELSE /\ pc' = "call"
              /\ Top'.items = Some(Top.items[1] - 1)
              /\ Top'.pulls = Top.pulls + 1]_vars

C4_KnownPulls == []C4_Counts /\ C4_Pull

\* C4 witness: a sequence declared with two items gave two items and then
\* answered "no more items" to a third pull.
C4_Witness ==
    \E i \in Frames :
        /\ stack[i].n0 = Some(2)
        /\ stack[i].items = Some(0)
        /\ stack[i].got = 2
        /\ stack[i].last = "nomore"

\* C5: an iterator in Unknown: a pull starts one item decode; the stop code
\* takes the state to Known(0) with "no more items", another result hands the
\* item over and leaves the state Unknown.  Once in Known(0) a pull answers "no
\* more items" without reading, and finish succeeds.
C5_States ==
    \A i \in Frames :
        (stack[i].kind = "composite" /\ stack[i].n0 = None) =>
            /\ stack[i].items \in {None, Some(0)}
            /\ stack[i].items = Some(0) => stack[i].last = "nomore"
            /\ (stack[i].items = Some(0) /\ stack[i].fin # "none") => stack[i].fin = "Ok"

C5_Pull ==
    [][(VisitStep /\ Top.n0 = None) =>
         IF Top.items = None
         THEN pc' = "call" /\ Top'.items = None
         ELSE /\ pc' = "visitor"
              /\ Top'.items = Some(0)
              /\ Top'.last = "nomore"
              /\ Top'.got = Top.got
              /\ UNCHANGED <<reader, first>>]_vars

C5_Return ==
    [][(pc = "ret" /\ Top.kind = "composite" /\ Top.wait = "_visit" /\ Top.items = None) =>
         IF ret[1].ok
         THEN /\ pc' = "visitor"
              /\ Len(stack') = Len(stack)
              /\ Top'.items = None
              /\ Top'.last = "some"
              /\ Top'.got = Top.got + 1
         ELSE IF ret[1].err = "StopCode"
         THEN /\ pc' = "visitor"
              /\ Len(stack') = Len(stack)
              /\ Top'.items = Some(0)
              /\ Top'.last = "nomore"
              /\ Top'.got = Top.got
         ELSE /\ pc' = "ret"
              /\ Len(stack') = Len(stack) - 1
              /\ ret' = ret]_vars

C5_UnknownPulls == []C5_States /\ C5_Pull /\ C5_Return

\* C5 witness: an indefinite composite gave an item, met the stop code, and
\* its finish succeeded.
C5_Witness ==
    \E i \in Frames :
        /\ stack[i].n0 = None
        /\ stack[i].items = Some(0)
        /\ stack[i].got >= 1
        /\ stack[i].fin = "Ok"
\* The bitwise complement of a byte sequence.
Complement(bs) == [i \in 1..Len(bs) |-> 255 - bs[i]]

\* The number a two's complement byte sequence stands for: mag if ~neg,
\* -1 - mag if neg (the complement of a negative number x is -1 - x).
SignedNum(bs) ==
    IF bs[1] >= 128 THEN [neg |-> TRUE, mag |-> Strip(Complement(bs))]
    ELSE [neg |-> FALSE, mag |-> Strip(bs)]

\* The argument of a one-item integer input as a number: the additional
\* information itself, or the big-endian bytes after the header.
WireArg(in) == IF Info(in[1]) <= 23 THEN Strip(<<Info(in[1])>>) ELSE Strip(Tail(in))

\* A complete integer item of major type mt.
IntItem(in, mt) ==
    /\ Major(in[1]) = mt
    /\ Info(in[1]) <= 27
    /\ Len(in) = IF Info(in[1]) <= 23 THEN 1 ELSE 1 + ArgWidth(Info(in[1]))

\* C6: a negative integer (major type 1) is delivered as -1 - argument; an
\* argument for which that does not fit the signed width (8-byte form:
\* argument >= 2^63) is rejected with Syntax, never delivered wrapped.
\* (Stated as the claim makes it; the code delivers 0x3B FF..FF as 0.)
C6_NegativeNoWrap ==
    (pc = "done" /\ IntItem(input, 1)) =>
        IF Len(WireArg(input)) = 8 /\ WireArg(input)[1] >= 128
        THEN result = Some(Err("Syntax")) /\ accepts = <<>>
        ELSE /\ Len(accepts) = 1
             /\ SignedNum(accepts[1].v) = [neg |-> TRUE, mag |-> WireArg(input)]

EncU == [v \in UVals |-> EncodeArg(0, v)]

EncN == [v \in UVals |-> EncodeArg(1, v)]

\* C7: the minimal-width major-type-0 encoding of every unsigned v decodes to
\* v, and the minimal-width major-type-1 encoding with argument -1 - v of
\* every negative v >= -2^63 decodes to v, on both sides of every width
\* transition.
C7_RoundTrip ==
    pc = "done" =>
        \A v \in UVals :
            /\ input = EncU[v] =>
                  /\ result[1].ok
                  /\ Len(accepts) = 1
                  /\ accepts[1].m \in {"visit_u8", "visit_u16", "visit_u32", "visit_u64"}
                  /\ Strip(accepts[1].v) = v
            /\ (input = EncN[v] /\ (Len(v) < 8 \/ v[1] < 128)) =>
                  /\ result[1].ok
                  /\ Len(accepts) = 1
                  /\ accepts[1].m \in {"visit_i8", "visit_i16", "visit_i32", "visit_i64"}
                  /\ SignedNum(accepts[1].v) = [neg |-> TRUE, mag |-> v]

\* C7 witness: -2^63, encoded with the argument 2^63 - 1, was decoded and
\* delivered as 0x80 00 .. 00.
C7_Witness ==
    /\ pc = "done"
    /\ input = <<59, 127, 255, 255, 255, 255, 255, 255, 255>>
    /\ result[1].ok
    /\ accepts[1].v = <<128, 0, 0, 0, 0, 0, 0, 0>>
\* The input starts with a complete header of major type 2..5 that states a
\* length in 1, 2, 4 or 8 bytes.
SizeHeader(in) ==
    /\ in # <<>>
    /\ Major(in[1]) \in 2..5
    /\ Info(in[1]) \in 24..27
    /\ Len(in) >= 1 + ArgWidth(Info(in[1]))

\* The length that header states, without leading zeros.
Declared(in) == Strip(SubSeq(in, 2, 1 + ArgWidth(Info(in[1]))))

TooLong(in) ==
    SizeHeader(in) /\ (Len(Declared(in)) > 3 \/ Nat3(Declared(in)) > MAX_SEQ_LEN)

\* The top-level call parsed the header input[1] as a length-bearing item:
\* through Deserializer::deserialize, or, for a sequence, deserialize_enum.
ParsedAsSize ==
    \/ stack[1].entry = <<"deserialize">>
    \/ stack[1].entry = <<"deserialize_enum">> /\ Major(input[1]) = 4

\* C8: a byte-string, text-string, sequence, map or variant-sequence header
\* that declares a length above MAX_SEQ_LEN = 2^19 fails with Syntax before a
\* buffer is allocated, before a payload byte or element is read and before a
\* visitor method is invoked; a length up to the ceiling passes the check.  In
\* every position, no buffer and no iterator is made for more than the ceiling.
C8_LengthCeiling ==
    /\ (TooLong(input) /\ ParsedAsSize) =>
          /\ alloc = <<>>
          /\ accepts = <<>>
          /\ Len(stack) = 1
          /\ Len(reader) = Len(input) - 1 - ArgWidth(Info(input[1]))
          /\ \/ pc = "ret" /\ ret = Some(Err("Syntax"))
             \/ pc = "done" /\ result = Some(Err("Syntax"))
    /\ (SizeHeader(input) /\ ~TooLong(input) /\ ParsedAsSize) =>
          IF Major(input[1]) \in {2, 3}
          THEN alloc # <<>> /\ alloc[1] = Nat3(Declared(input))
          ELSE /\ accepts # <<>>
               /\ accepts[1].m = (IF stack[1].entry = <<"deserialize_enum">> THEN "visit"
                                  ELSE IF Major(input[1]) = 4 THEN "visit_seq"
                                  ELSE "visit_map")
    /\ \A i \in 1..Len(alloc) : alloc[i] <= MAX_SEQ_LEN
    /\ \A i \in Frames : stack[i].n0 # None => stack[i].n0[1] <= MAX_SEQ_LEN

\* C8 witness: a byte string declaring MAX_SEQ_LEN + 1 bytes, with input after
\* the header, was refused with Syntax.
C8_Witness ==
    /\ pc = "done"
    /\ input = <<90, 0, 8, 0, 1, 1, 1>>
    /\ stack[1].entry = <<"deserialize">>
    /\ result = Some(Err("Syntax"))
\* The run of items of `in` from position i, read as the chunks of an
\* indefinite-length string of major type mt: st = "stop" after definite-length
\* chunks of that type (length in the header or in one byte) and the stop
\* byte, with their contents in `content` and the position after the stop
\* byte in `next`; "bad" at an item that is neither such a chunk nor the stop
\* byte; "short" or "utf8" when the input ends early or a text chunk is not
\* well-formed.
RECURSIVE ChunkRun(_, _, _, _)
ChunkRun(in, i, mt, acc) ==
    IF i > Len(in) THEN [st |-> "short", content |-> acc, next |-> i]
    ELSE IF in[i] = 255 THEN [st |-> "stop", content |-> acc, next |-> i + 1]
    ELSE IF Major(in[i]) # mt \/ Info(in[i]) > 27
    THEN [st |-> "bad", content |-> acc, next |-> i]
    ELSE IF Info(in[i]) > 24 \/ (Info(in[i]) = 24 /\ i + 1 > Len(in))
    THEN [st |-> "short", content |-> acc, next |-> i]
    ELSE LET from == IF Info(in[i]) = 24 THEN i + 2 ELSE i + 1
             n == IF Info(in[i]) = 24 THEN in[i + 1] ELSE Info(in[i])
             body == SubSeq(in, from, from + n - 1)
         IN IF from + n - 1 > Len(in) THEN [st |-> "short", content |-> acc, next |-> i]
            ELSE IF mt = 3 /\ ~Utf8Valid(body) THEN [st |-> "utf8", content |-> acc, next |-> i]
            ELSE ChunkRun(in, from + n, mt, acc \o body)

Chunked(in) == ChunkRun(in, 2, Major(in[1]), <<>>)

\* The accept calls made on the caller's visitor.
Delivered == SelectSeq(accepts, LAMBDA c : c.by = "any")

\* C9: an indefinite-length byte (text) string of k >= 0 definite-length chunks
\* of its own major type and the stop byte is delivered to the visitor in one
\* accept call carrying the chunk contents concatenated in wire order, and the
\* decode consumes the input up to and including the stop byte.
C9_ChunksConcatenated ==
    (input[1] \in {95, 127} /\ Chunked(input).st = "stop") =>
        LET c == Chunked(input)
            whole == Val(IF input[1] = 95 THEN "visit_byte_buf" ELSE "visit_string", c.content)
        IN /\ (pc = "ret" /\ Len(stack) = 1) =>
                 /\ ret = Some(Ok(whole))
                 /\ reader = SubSeq(input, c.next, Len(input))
                 /\ Delivered = <<Call("any", whole, 1)>>
           /\ pc = "done" =>
                 /\ Delivered = <<Call("any", whole, 1)>>
                 /\ value = Some(whole)
                 /\ result = Some(IF c.next > Len(input) THEN Ok(whole)
                                  ELSE Err("TrailingBytes"))

\* C9 witness: 0x5F 0x41 'A' 0x41 'B' 0xFF was decoded to the bytes 'A', 'B'.
C9_Witness ==
    /\ pc = "done"
    /\ input = <<95, 65, 65, 65, 66, 255>>
    /\ reader = <<>>
    /\ result = Some(Ok(Val("visit_byte_buf", <<65, 66>>)))

\* C10: inside an indefinite-length byte (text) string, an item in chunk
\* position that is neither a definite-length item of the string's own major
\* type nor the stop byte makes the decode fail, and nothing of it reaches the
\* caller's visitor.  (The claim names the error Syntax; the kind is left open
\* here because for a foreign kind it is serde's visitor that answers.)
C10_BadChunkRejected ==
    (pc = "done" /\ input[1] \in {95, 127} /\ Chunked(input).st = "bad") =>
        /\ ~result[1].ok
        /\ Delivered = <<>>
\* The position in rd after the chain of complete tag headers that starts at
\* position i (i itself when there is none).
RECURSIVE AfterTags(_, _)
AfterTags(rd, i) ==
    IF i > Len(rd) \/ Major(rd[i]) # 6 \/ Info(rd[i]) > 27 THEN i
    ELSE LET w == IF Info(rd[i]) <= 23 THEN 0 ELSE ArgWidth(Info(rd[i])) IN
         IF i + w > Len(rd) THEN i ELSE AfterTags(rd, i + 1 + w)

\* What Deserializer::deserialize does for the frame on top when the source
\* holds x: the end-of-input error, or parse_value on the header byte.
Untagged(x) ==
    IF x = <<>> THEN Fail("Io", <<>>, <<>>)
    ELSE parse_value(x[1], Tail(x), VisitorOf(Top), Len(stack))

\* C11: tags are transparent.  A call of Deserializer::deserialize that finds
\* one or more tag headers (tag number in the header or in 1, 2, 4 or 8 bytes)
\* in front of X does what it does on X alone: same accept call with the same
\* value, same result (or the same iterator or chunk loop handed on), the
\* source consumed by the tag bytes plus what X consumes, and the lookahead
\* slot empty.
C11_TagsTransparent ==
    [][(pc = "call" /\ first = None /\ AfterTags(reader, 1) > 1) =>
         LET o == Untagged(SubSeq(reader, AfterTags(reader, 1), Len(reader))) IN
         /\ reader' = o.rd
         /\ first' = None
         /\ accepts' = accepts \o o.log
         /\ alloc' = alloc \o o.al
         /\ IF o.t = "ret"
            THEN /\ pc' = "ret"
                 /\ ret' = Some(o.res)
                 /\ Len(stack') = Len(stack)
            ELSE /\ pc' = (IF o.t = "loop" THEN "call" ELSE "visitor")
                 /\ Len(stack') = Len(stack) + 1
                 /\ stack'[Len(stack')] =
                       Frame(o.t, o.role, o.items, VisitorOf(Top), "deserialize")]_vars

\* C11 witness: 0xC1 0xD8 0x07 0x18 0xC8 (two tags before the integer 200) was
\* decoded to 200 by one visit_u8 call.
C11_Witness ==
    /\ pc = "done"
    /\ input = <<193, 216, 7, 24, 200>>
    /\ accepts = <<Call("any", Val("visit_u8", <<200>>), 1)>>
    /\ result = Some(Ok(Val("visit_u8", <<200>>)))
    /\ first = None
\* The top-level call went through deserialize_enum and frame 2 is the
\* CompositeVisitor it gave to the EnumVisitor.
EnumSite ==
    /\ Len(stack) >= 2
    /\ stack[1].entry = <<"deserialize_enum">>
    /\ stack[2].kind = "variant"

\* C12: visit_unit succeeds exactly when no element of the enclosing wire item
\* is left undecoded after the selector: it succeeds for a bare text-string
\* selector and for a sequence declaring one element (the selector), and fails
\* with Syntax for a sequence declaring more.  (Stated as the claim makes it;
\* the code refuses the one-element sequence, as for 0x81 0x01.)
C12_UnitNeedsNoRest ==
    (EnumSite /\ stack[2].wait = "visit_unit") =>
        IF Major(input[1]) = 3 \/ stack[2].n0 = Some(1) THEN stack[2].fin = "Ok"
        ELSE (stack[2].n0 # None /\ stack[2].n0 # Some(0)) => stack[2].fin = "Syntax"
\* C13: at deserialize_enum the wire shape decides.  A header that is neither
\* a text string nor a sequence gives Syntax, with one byte read and no visitor
\* call.  A sequence header declaring n gives the EnumVisitor an iterator of n;
\* visit_tuple(k), which comes after the selector, is refused with Syntax when
\* the declared length is not k + 1, and otherwise hands the field visitor a
\* Known(k) iterator.
C13_VariantShape ==
    /\ (stack[1].entry = <<"deserialize_enum">> /\ input # <<>>
           /\ Major(input[1]) \notin {3, 4}) =>
          /\ accepts = <<>>
          /\ Len(stack) = 1
          /\ reader = Tail(input)
          /\ \/ pc = "ret" /\ ret = Some(Err("Syntax"))
             \/ pc = "done" /\ result = Some(Err("Syntax"))
    /\ (EnumSite /\ Major(input[1]) = 4 /\ Info(input[1]) <= 23) =>
          stack[2].n0 = Some(Info(input[1])) /\ stack[2].items = stack[2].n0
    /\ \A i \in Frames :
          (stack[i].kind = "variant" /\ stack[i].wait = "visit_tuple") =>
             LET k == stack[i].len[1] IN
             /\ stack[i].sel
             /\ IF stack[i].n0 # None /\ stack[i].n0 # Some(k + 1)
                THEN /\ stack[i].fin = "Syntax"
                     /\ i = Len(stack)
                     /\ pc = "return"
                ELSE /\ stack[i].fin = "none"
                     /\ IF i = Len(stack) THEN pc = "ret"
                        ELSE /\ stack[i + 1].kind = "composite"
                             /\ stack[i + 1].via = "visit_tuple"
                             /\ stack[i + 1].n0 = Some(k)

\* C13 witness: 0x82 0x01 0x01 as a variant with one positional field: the
\* selector, then one field through a Known(1) iterator that was finished Ok.
C13_Witness ==
    /\ EnumSite
    /\ input = <<130, 1, 1>>
    /\ stack[2].len = Some(1)
    /\ Len(stack) = 3
    /\ stack[3].n0 = Some(1)
    /\ stack[3].got = 1
    /\ stack[3].fin = "Ok"
\* The position after the well-formed definite-length item that starts at
\* position i of `in` (lengths and counts in the header or in one byte): 0 when
\* the input ends before the item is complete, -1 when the item is not of that
\* form.  ItemsEnd does the same for k items in a row.
RECURSIVE ItemEnd(_, _), ItemsEnd(_, _, _)
ItemEnd(in, i) ==
    IF i > Len(in) THEN 0
    ELSE LET b == in[i]
             w == IF Info(b) = 24 THEN 1 ELSE 0
         IN IF Info(b) > 24 \/ (Major(b) = 7 /\ Info(b) \notin 20..23) THEN -1
            ELSE IF i + w > Len(in) THEN 0
            ELSE LET arg == IF w = 1 THEN in[i + 1] ELSE Info(b)
                     from == i + 1 + w
                 IN CASE Major(b) \in {0, 1, 7} -> from
                      [] Major(b) \in {2, 3} ->
                            IF from + arg - 1 > Len(in) THEN 0
                            ELSE IF Major(b) = 3 /\ ~Utf8Valid(SubSeq(in, from, from + arg - 1))
                            THEN -1
                            ELSE from + arg
                      [] Major(b) = 4 -> ItemsEnd(in, from, arg)
                      [] Major(b) = 5 -> ItemsEnd(in, from, 2 * arg)
                      [] OTHER -> ItemEnd(in, from)

ItemsEnd(in, i, k) ==
    IF k = 0 THEN i
    ELSE LET e == ItemEnd(in, i) IN
         IF e <= 0 THEN e ELSE ItemsEnd(in, e, k - 1)

\* The input is a sequence or map header declaring n >= 1 and ends before n
\* well-formed items are complete.
Truncated(in) ==
    /\ in # <<>>
    /\ Major(in[1]) \in {4, 5}
    /\ Info(in[1]) <= 24
    /\ Len(in) >= (IF Info(in[1]) = 24 THEN 2 ELSE 1)
    /\ LET w == IF Info(in[1]) = 24 THEN 1 ELSE 0
           n == IF w = 1 THEN in[2] ELSE Info(in[1])
       IN ItemsEnd(in, 2 + w, n) = 0

\* C14: a definite-length sequence or map whose input ends before the declared
\* number of items is complete is never accepted: its iterator never answers
\* "no more items" and never finishes Ok, and from_reader returns an error:
\* Io, the end-of-input error of the pull that ran out, unless a visitor gave
\* up before and got TrailingBytes from its own finish.
C14_TruncatedRejected ==
    (Truncated(input) /\ stack[1].entry = <<"deserialize">>) =>
        /\ Len(stack) >= 2 => stack[2].last # "nomore" /\ stack[2].fin # "Ok"
        /\ (pc = "ret" /\ Len(stack) = 1) => ret[1].err \in {"Io", "TrailingBytes"}
        /\ pc = "done" => /\ result[1].err \in {"Io", "TrailingBytes"}
                          /\ value = None

\* C14 witness: 0x82 0x01 (two declared, one present): one element was handed
\* over, the second pull failed, and from_reader returned Io.
C14_Witness ==
    /\ pc = "done"
    /\ input = <<130, 1>>
    /\ accepts = <<Call("any", Val("visit_seq", <<>>), 1), Call("any", Val("visit_u8", <<1>>), 2)>>
    /\ result = Some(Err("Io"))
\* C15: a header byte whose additional information is 28, 29 or 30 is invalid
\* in every major type: Deserializer::deserialize, wherever it is called,
\* returns Syntax, reads nothing after the header byte and calls no visitor.
C15_Call ==
    [][(pc = "call" /\ first = None /\ reader # <<>> /\ Info(reader[1]) \in 28..30) =>
         /\ pc' = "ret"
         /\ ret' = Some(Err("Syntax"))
         /\ reader' = Tail(reader)
         /\ accepts' = accepts
         /\ alloc' = alloc
         /\ first' = None
         /\ Len(stack') = Len(stack)]_vars

C15_Top ==
    (input # <<>> /\ Info(input[1]) \in 28..30 /\ stack[1].entry # <<>>) =>
        /\ accepts = <<>>
        /\ reader = Tail(input)
        /\ \/ pc = "ret" /\ ret = Some(Err("Syntax"))
           \/ pc = "done" /\ result = Some(Err("Syntax"))

C15_ReservedInfo == []C15_Top /\ C15_Call

\* C15 witness: 0xDC (a tag header with additional information 28) before two
\* more bytes was refused with Syntax, the two bytes unread.
C15_Witness ==
    /\ pc = "done"
    /\ input = <<220, 1, 1>>
    /\ reader = <<1, 1>>
    /\ accepts = <<>>
    /\ result = Some(Err("Syntax"))
\* C16 as the claim states it: once an iterator has reported its end, a
\* further pull is an error, so "no more items" is never answered twice.
\* (The code answers Ok(None) to every pull in Known(0).)
C16_PullAfterEndFails == \A i \in Frames : ~stack[i].again

\* C16, amended: a pull on an iterator in Known(0) that has already reported
\* its end answers "no more items" again: it reads nothing, changes neither
\* the count nor the lookahead slot, returns no error, and finish still
\* succeeds afterwards.
C16_Again ==
    [][(VisitStep /\ Top.items = Some(0) /\ Top.last = "nomore") =>
         /\ pc' = "visitor"
         /\ Top' = [Top EXCEPT !.again = TRUE]
         /\ UNCHANGED <<reader, first, ret, accepts, alloc>>]_vars

C16_AfterAgain ==
    \A i \in Frames :
        stack[i].again =>
            /\ stack[i].items = Some(0)
            /\ stack[i].last = "nomore"
            /\ stack[i].fin \in {"none", "Ok"}

C16_PullAfterEndIsEnd == []C16_AfterAgain /\ C16_Again

\* C16 witness: an iterator was pulled again after its end and then finished
\* Ok.
C16_Witness ==
    \E i \in Frames :
        /\ stack[i].again
        /\ stack[i].got >= 1
        /\ stack[i].fin = "Ok"
\* C17: pull_value (MapVisitor::visit_value) makes one call of
\* Deserialize::deserialize and neither reads nor changes the remaining count,
\* in Known(n), Known(0) and Unknown, when the item decodes and when it fails
\* (the error goes to the visitor unchanged).  So a map header declaring n
\* counts pairs: the count goes down with the key pulls only, "no more items"
\* and a successful finish come after exactly n key pulls, whatever the
\* number of value pulls.
C17_Value ==
    [][(pc = "visitor" /\ Top.kind = "composite" /\ pc' = "call"
           /\ Len(stack') = Len(stack) /\ Top'.wait = "visit_value") =>
         /\ Top' = [Top EXCEPT !.wait = "visit_value", !.vals = @ + 1]
         /\ UNCHANGED <<reader, first, accepts>>]_vars

C17_ValueRet ==
    [][(pc = "ret" /\ Top.kind = "composite" /\ Top.wait = "visit_value") =>
         IF ret[1].ok
         THEN /\ pc' = "visitor"
              /\ Len(stack') = Len(stack)
              /\ Top' = [Top EXCEPT !.wait = "none"]
         ELSE /\ pc' = "ret"
              /\ Len(stack') = Len(stack) - 1
              /\ ret' = ret]_vars

C17_Pairs ==
    \A i \in Frames :
        (stack[i].kind = "composite" /\ stack[i].role = "map" /\ stack[i].n0 # None) =>
            /\ stack[i].items = Some(stack[i].n0[1] - stack[i].pulls)
            /\ stack[i].last = "nomore" => stack[i].got = stack[i].n0[1]
            /\ stack[i].fin = "Ok" => stack[i].got = stack[i].n0[1]

C17_ValueKeepsCount == []C17_Pairs /\ C17_Value /\ C17_ValueRet

\* C17 witness: a map declaring two pairs gave two keys and two values, then
\* answered "no more items" and finished Ok.
C17_Witness ==
    \E i \in Frames :
        /\ stack[i].role = "map"
        /\ stack[i].n0 = Some(2)
        /\ stack[i].got = 2
        /\ stack[i].vals = 2
        /\ stack[i].last = "nomore"
        /\ stack[i].fin = "Ok"
        /\ reader = <<>>
\* C18: decoding terminates on every finite input.  Every call of
\* Deserialize::deserialize (each iteration of a chunk loop, each pull, each
\* item after tags) takes at least one byte from the source or returns an
\* error, and from_reader eventually returns, given visitors that do not pull
\* for ever at the end of an iterator.
C18_Progress ==
    [][pc = "call" =>
         \/ Len(reader') < Len(reader)
         \/ pc' = "ret" /\ ~ret'[1].ok]_vars

C18_Terminates == C18_Progress /\ <>(pc = "done")

\* C18 witness: 0xC1 0x5F 0xFF, a tag before an empty indefinite byte string,
\* was decoded to its end.
C18_Witness ==
    /\ pc = "done"
    /\ input = <<193, 95, 255>>
    /\ reader = <<>>
    /\ result = Some(Ok(Val("visit_byte_buf", <<>>)))
\* C19: no header byte is lost through the lookahead slot: a call that reads
\* a fresh header byte from the source (deserialize_option, deserialize_enum,
\* or deserialize with an empty slot) finds the slot empty.  (Stated as the
\* claim makes it; the code lets deserialize_option and deserialize_enum read
\* over a full slot, as for an Option inside an Option.)
C19_SlotEmptyAtRead ==
    [][(pc = "call" /\ first # None) =>
         LET e == stack'[Len(stack)].entry IN e[Len(e)] = "deserialize"]_vars
\* C20: an indefinite-length sequence or map is ended only by a stop byte read
\* at its own element or key position: the stop code reaches the _visit of an
\* iterator in Unknown directly from the deserialize call that _visit made,
\* which read 0xFF as the header of the element and nothing else.  A stop code
\* raised while a nested item is decoded does not reach it.  (Stated as the
\* claim makes it; in the code the stop code of a nested item is an error like
\* any other, returned through the nested visitor to the enclosing _visit.)
C20_StopAtOwnPosition ==
    [][(/\ pc' = "ret"
        /\ ret' = Some(Err("StopCode"))
        /\ stack'[Len(stack')].kind = "composite"
        /\ stack'[Len(stack')].wait = "_visit"
        /\ stack'[Len(stack')].items = None)
       => (/\ pc = "call"
           /\ Len(stack') = Len(stack)
           /\ first = None
           /\ reader # <<>>
           /\ Head(reader) = 255
           /\ reader' = Tail(reader))]_vars
====
